---- MODULE Spec2Model ----
(***************************************************************************)
(* Bookmark service (express + mongoose): accounts, bearer tokens, the     *)
(* access guard, the content store and the share registry.                 *)
(*                                                                         *)
(* A text value is the record [core, len, pad]: `core` names the text      *)
(* without its surrounding whitespace, `len` is the length of that text    *)
(* and `pad` the number of surrounding whitespace characters.  Time is     *)
(* counted in hours.  Object ids are positive integers.                    *)
(***************************************************************************)
EXTENDS Integers, Sequences, FiniteSets, TLC

---------------------------------------------------------------------------
(* Bounds of the model *)

MaxClock == 24
MaxContentId == 2
MaxHash == 2
MaxTokens == 2

(* Program constants *)

MinUsername == 3
MaxUsername == 50
MinPassword == 6
MaxPassword == 100
MinTitle == 1
MaxTitle == 200
MaxLink == 2000
DbMinUsername == 3
DbMinPassword == 6
TokenTTL == 24

(* Time advances by half a token lifetime *)

ClockStep == TokenTTL \div 2

JWT_PASSWORD == "server-secret"

---------------------------------------------------------------------------
(* Text values *)

Text(core, len, pad) == [core |-> core, len |-> len, pad |-> pad]

Length(s) == s.len + s.pad

Trim(s) == [s EXCEPT !.pad = 0]

NoText == Text("", 0, 0)

Usernames ==
    { Text("alice", 5, 0), Text("alice", 5, 1), Text("bob", 3, 0),
      Text("a", 1, 2), Text("ab", 2, 0) }

Passwords == { Text("secret1", 7, 0), Text("hunter", 6, 0), Text("short", 5, 0) }

Titles == { Text("t1", 2, 0), Text("t1", 2, 1), Text("t2", 2, 0),
            Text("", 0, 0), Text("", 0, 1) }

Links == { Text("https://x", 9, 0), Text("", 0, 0), Text("long", 2001, 0) }

UserIds == {1, 2}

Slots == {1, 2}

---------------------------------------------------------------------------
(* Request validation (zod) *)

userSchemaOk(p) ==
    /\ Length(p.username) >= MinUsername
    /\ Length(p.username) <= MaxUsername
    /\ Length(p.password) >= MinPassword
    /\ Length(p.password) <= MaxPassword

userSchemaParse(p) == [username |-> Trim(p.username), password |-> p.password]

contentSchemaOk(p) ==
    /\ Length(p.title) >= MinTitle
    /\ Length(p.title) <= MaxTitle
    /\ Length(p.link) <= MaxLink

contentSchemaParse(p) == [title |-> Trim(p.title), link |-> p.link]

---------------------------------------------------------------------------
(* Tokens (jsonwebtoken) *)

Jwt(key, id, exp) == [kind |-> "jwt", key |-> key, id |-> id, exp |-> exp]

NoHeader == [kind |-> "absent", key |-> "", id |-> 0, exp |-> 0]

Malformed == [kind |-> "malformed", key |-> "", id |-> 0, exp |-> 0]

NotChecked == [kind |-> "unchecked", key |-> "", id |-> 0, exp |-> 0]

FarFuture == MaxClock + TokenTTL + 1

NoIdToken == Jwt(JWT_PASSWORD, 0, FarFuture)

ForgedTokens == { Jwt("attacker-secret", i, FarFuture) : i \in UserIds }

jwtSignLong(id, now) == Jwt(JWT_PASSWORD, id, now + TokenTTL + TokenTTL)

jwtSign(id, now) == Jwt(JWT_PASSWORD, id, now + TokenTTL)

jwtVerifyUnsigned(tok, now) == tok.kind = "jwt" /\ now < tok.exp

jwtVerify(tok, now) ==
    /\ tok.kind = "jwt"
    /\ tok.key = JWT_PASSWORD
    /\ now < tok.exp

Unauthorized(msg) == [ok |-> FALSE, userId |-> 0, status |-> 401, body |-> msg]

userMiddleware(tok, now) ==
    IF tok.kind = "absent" THEN Unauthorized("Invalid Token")
    ELSE IF ~jwtVerify(tok, now) THEN Unauthorized("Invalid or expired token")
    ELSE IF tok.id = 0 THEN Unauthorized("Invalid token payload")
    ELSE [ok |-> TRUE, userId |-> tok.id, status |-> 0, body |-> ""]

---------------------------------------------------------------------------
(* Passwords (bcrypt) *)

bcryptHash(pw) == [hashOf |-> pw]

comparePassword(user, candidate) == user.password = bcryptHash(candidate)

---------------------------------------------------------------------------
(* User collection (mongoose UserSchema) *)

UserFindOne(us, name) == { u \in us : u.username = name }

UserFindById(us, id) == { u \in us : u.id = id }

UserNoUniqueIndex(us, name) == FALSE

UserDuplicateKey(us, name) == \E u \in us : u.username = name

UserValidate(doc) ==
    /\ Length(Trim(doc.username)) >= DbMinUsername
    /\ Length(doc.password) >= DbMinPassword

UserDoc(us, doc) ==
    [id |-> Cardinality(us) + 1,
     username |-> Trim(doc.username),
     password |-> bcryptHash(doc.password)]

(* Content collection (mongoose ContentSchema) *)

ContentFindAll(cs, userId) == cs

ContentFind(cs, userId) == { c \in cs : c.userId = userId }

ContentMatchIdOnly(cs, id, userId) == { c \in cs : c.id = id }

ContentMatch(cs, id, userId) == { c \in cs : c.id = id /\ c.userId = userId }

ContentDuplicateKey(cs, title) == \E c \in cs : c.title = title

ContentValidate(doc) == Length(doc.title) > 0 /\ Length(doc.link) > 0

ContentDoc(id, doc, userId) ==
    [id |-> id, title |-> doc.title, link |-> doc.link, tags |-> {},
     userId |-> userId]

(* Share collection (mongoose ShareSchema), in insertion order *)

ShareIdxByUser(sh, userId) == { i \in 1..Len(sh) : sh[i].userId = userId }

ShareIdxByHash(sh, hash) == { i \in 1..Len(sh) : sh[i].hash = hash }

First(S) == CHOOSE i \in S : \A j \in S : i <= j

ShareFindOneByUser(sh, userId) ==
    IF ShareIdxByUser(sh, userId) = {} THEN {}
    ELSE { sh[First(ShareIdxByUser(sh, userId))] }

ShareFindOneByHash(sh, hash) ==
    IF ShareIdxByHash(sh, hash) = {} THEN {}
    ELSE { sh[First(ShareIdxByHash(sh, hash))] }

ShareDeleteOne(sh, userId) ==
    IF ShareIdxByUser(sh, userId) = {} THEN sh
    ELSE [i \in 1..(Len(sh) - 1) |->
             IF i < First(ShareIdxByUser(sh, userId)) THEN sh[i] ELSE sh[i + 1]]

ShareDuplicateKey(sh, hash) == \E i \in 1..Len(sh) : sh[i].hash = hash

random(nh) == nh

---------------------------------------------------------------------------
(* Route handlers, as functions of the collections they read.  `res` is    *)
(* the response, `next` tells whether the handler answered or suspended    *)
(* at its next await.                                                      *)

Res(status, body, data) == [status |-> status, body |-> body, data |-> data]

NoRes == Res(0, "", {})

(* POST /signin: parse, await findOne | await create *)

PostSigninFind(us, p) ==
    IF ~userSchemaOk(p)
    THEN [next |-> "respond", res |-> Res(500, "Internal server error", {})]
    ELSE IF UserFindOne(us, userSchemaParse(p).username) # {}
    THEN [next |-> "respond", res |-> Res(409, "Username already exists", {})]
    ELSE [next |-> "signin_create", res |-> NoRes]

PostSigninCreate(us, doc) ==
    IF ~UserValidate(doc) \/ UserDuplicateKey(us, Trim(doc.username))
    THEN [users |-> us, res |-> Res(500, "Internal server error", {})]
    ELSE [users |-> us \cup {UserDoc(us, doc)},
          res |-> Res(201, "User created successfully", {})]

(* POST /login: parse, await findOne, await comparePassword, sign.  The    *)
(* user record read by findOne is the only store access.                   *)

PostLoginNamesCause(us, p, now) ==
    LET found == UserFindOne(us, userSchemaParse(p).username)
        user == CHOOSE u \in found : TRUE
    IN  IF ~userSchemaOk(p) THEN Res(500, "Internal server error", NoHeader)
        ELSE IF found = {} THEN Res(404, "User not found", NoHeader)
        ELSE IF ~comparePassword(user, userSchemaParse(p).password)
        THEN Res(401, "Invalid credentials", NoHeader)
        ELSE Res(200, "Login successful", jwtSign(user.id, now))

PostLogin(us, p, now) ==
    LET found == UserFindOne(us, userSchemaParse(p).username)
        user == CHOOSE u \in found : TRUE
    IN  IF ~userSchemaOk(p) THEN Res(500, "Internal server error", NoHeader)
        ELSE IF found = {} THEN Res(401, "Invalid credentials", NoHeader)
        ELSE IF ~comparePassword(user, userSchemaParse(p).password)
        THEN Res(401, "Invalid credentials", NoHeader)
        ELSE Res(200, "Login successful", jwtSign(user.id, now))

(* POST /content: guard, parse, await create *)

PostContent(cs, nid, tok, p, now) ==
    LET g == userMiddleware(tok, now)
        doc == contentSchemaParse(p)
        new == ContentDoc(nid, doc, g.userId)
    IN  IF ~g.ok
        THEN [contents |-> cs, userId |-> 0, res |-> Res(g.status, g.body, {})]
        ELSE IF ~contentSchemaOk(p)
        THEN [contents |-> cs, userId |-> g.userId,
              res |-> Res(400, "Validation failed", {})]
        ELSE IF ~ContentValidate(doc) \/ ContentDuplicateKey(cs, doc.title)
        THEN [contents |-> cs, userId |-> g.userId,
              res |-> Res(500, "Failed to add content", {})]
        ELSE [contents |-> cs \cup {new}, userId |-> g.userId,
              res |-> Res(201, "Content added successfully", {new})]

(* GET /content: guard, await find *)

GetContent(cs, tok, now) ==
    LET g == userMiddleware(tok, now)
    IN  IF ~g.ok THEN [userId |-> 0, res |-> Res(g.status, g.body, {})]
        ELSE [userId |-> g.userId,
              res |-> Res(200, "success", ContentFind(cs, g.userId))]

(* DELETE /content: guard, await findOneAndDelete.  contentId 0 stands for *)
(* a body without contentId, -1 for a value that is no object id.          *)

DeleteContent(cs, tok, contentId, now) ==
    LET g == userMiddleware(tok, now)
        hit == ContentMatch(cs, contentId, g.userId)
    IN  IF ~g.ok
        THEN [contents |-> cs, userId |-> 0, res |-> Res(g.status, g.body, {})]
        ELSE IF contentId = 0
        THEN [contents |-> cs, userId |-> g.userId,
              res |-> Res(400, "Content ID is required", {})]
        ELSE IF contentId < 0
        THEN [contents |-> cs, userId |-> g.userId,
              res |-> Res(500, "Failed to delete content", {})]
        ELSE IF hit = {}
        THEN [contents |-> cs, userId |-> g.userId,
              res |-> Res(404,
                  "Content not found or you don't have permission to delete it",
                  {})]
        ELSE [contents |-> cs \ hit, userId |-> g.userId,
              res |-> Res(200, "Content deleted successfully", {})]

(* POST /brain/share: guard; enable: await findOne | await create;         *)
(* disable: await deleteOne                                                *)

ShareEnableFind(sh, userId) ==
    LET existing == ShareFindOneByUser(sh, userId)
        link == CHOOSE l \in existing : TRUE
    IN  IF existing # {}
        THEN [next |-> "respond", res |-> Res(200, "success", link.hash)]
        ELSE [next |-> "share_create", res |-> NoRes]

ShareEnableCreate(sh, nh, userId) ==
    LET hash == random(nh)
    IN  IF ShareDuplicateKey(sh, hash)
        THEN [shares |-> sh,
              res |-> Res(500, "Failed to process share request", 0)]
        ELSE [shares |-> Append(sh, [hash |-> hash, userId |-> userId]),
              res |-> Res(200, "Share link created", hash)]

ShareDisable(sh, userId) ==
    [shares |-> ShareDeleteOne(sh, userId),
     res |-> Res(200, "Share link removed", 0)]

PostShare(sh, tok, share, now) ==
    LET g == userMiddleware(tok, now)
    IN  IF ~g.ok
        THEN [next |-> "respond", shares |-> sh, userId |-> 0,
              res |-> Res(g.status, g.body, 0)]
        ELSE IF share
        THEN [next |-> ShareEnableFind(sh, g.userId).next, shares |-> sh,
              userId |-> g.userId, res |-> ShareEnableFind(sh, g.userId).res]
        ELSE [next |-> "respond", shares |-> ShareDisable(sh, g.userId).shares,
              userId |-> g.userId, res |-> ShareDisable(sh, g.userId).res]

(* GET /brain/:shareLink: await findOne(share) | await find(content),      *)
(* await findOne(user).  No guard.  User records are never changed or      *)
(* removed, so the two reads after the share lookup are one step.          *)

GetBrainFindLink(sh, hash) ==
    LET found == ShareFindOneByHash(sh, hash)
        link == CHOOSE l \in found : TRUE
    IN  IF found = {}
        THEN [next |-> "respond", userId |-> 0,
              res |-> Res(404, "Share link not found", {})]
        ELSE [next |-> "brain_content", userId |-> link.userId, res |-> NoRes]

GetBrainRespond(us, cs, userId) ==
    LET content == ContentFind(cs, userId)
        found == UserFindById(us, userId)
        user == CHOOSE u \in found : TRUE
    IN  IF found = {} THEN Res(404, "User not found", {})
        ELSE Res(200, "success",
                 [username |-> user.username, content |-> content])

---------------------------------------------------------------------------
(* State *)

VARIABLES
    users,          \* User collection: set of [id, username, password]
    contents,       \* Content collection: set of [id, title, link, tags, userId]
    shares,         \* Share collection in insertion order: Seq([hash, userId])
    nextContentId,  \* next object id the Content collection hands out
    nextHash,       \* next value random() returns
    clock,          \* current time, in hours
    issued,         \* tokens returned by /login: set of [tok, username, at]
    slot,           \* requests suspended at an await, one per connection
    ev              \* the response sent by the last step, NoEvent if none

vars == <<users, contents, shares, nextContentId, nextHash, clock, issued,
          slot, ev>>

NoPayload == [username |-> NoText, password |-> NoText]

IdleSlot == [pc |-> "idle", payload |-> NoPayload, userId |-> 0]

Event(op, user, arg, res) ==
    [op |-> op, user |-> user, arg |-> arg, status |-> res.status]

NoEvent == Event("none", 0, 0, NoRes)

Init ==
    /\ users = {}
    /\ contents = {}
    /\ shares = <<>>
    /\ nextContentId = 1
    /\ nextHash = 1
    /\ clock = 0
    /\ issued = {}
    /\ slot = [s \in Slots |-> IdleSlot]
    /\ ev = NoEvent

(* What a client can put in the authorization header *)

Headers == {NoHeader, Malformed, NoIdToken} \cup ForgedTokens
               \cup { i.tok : i \in issued }

---------------------------------------------------------------------------
(* Steps *)

SigninFind(s, p) ==
    LET o == PostSigninFind(users, p)
    IN  /\ slot[s].pc = "idle"
        /\ slot' = IF o.next = "respond" THEN slot
                   ELSE [slot EXCEPT ![s] = [IdleSlot EXCEPT !.pc = o.next,
                                                !.payload = userSchemaParse(p)]]
        /\ ev' = IF o.next = "respond" THEN Event("signin", 0, 0, o.res)
                 ELSE NoEvent
        /\ UNCHANGED <<users, contents, shares, nextContentId, nextHash, clock,
                       issued>>

SigninCreate(s) ==
    LET o == PostSigninCreate(users, slot[s].payload)
    IN  /\ slot[s].pc = "signin_create"
        /\ slot' = [slot EXCEPT ![s] = IdleSlot]
        /\ users' = o.users
        /\ ev' = Event("signin", 0, 1, o.res)
        /\ UNCHANGED <<contents, shares, nextContentId, nextHash, clock, issued>>

Login(p) ==
    LET res == PostLogin(users, p, clock)
        grant == [tok |-> res.data, username |-> userSchemaParse(p).username,
                  at |-> clock]
    IN  /\ res.status = 200 =>
               (grant \in issued \/ Cardinality(issued) < MaxTokens)
        /\ issued' = IF res.status = 200 THEN issued \cup {grant} ELSE issued
        /\ ev' = Event("login", res.data.id, 0, res)
        /\ UNCHANGED <<users, contents, shares, nextContentId, nextHash, clock,
                       slot>>

AddContent(tok, p) ==
    LET o == PostContent(contents, nextContentId, tok, p, clock)
    IN  /\ o.res.status = 201 => nextContentId <= MaxContentId
        /\ contents' = o.contents
        /\ nextContentId' = IF o.res.status = 201 THEN nextContentId + 1
                            ELSE nextContentId
        /\ ev' = Event("postContent", o.userId, 0, o.res)
        /\ UNCHANGED <<users, shares, nextHash, clock, issued, slot>>

ListContent(tok) ==
    LET o == GetContent(contents, tok, clock)
    IN  /\ ev' = Event("getContent", o.userId, 0, o.res)
        /\ UNCHANGED <<users, contents, shares, nextContentId, nextHash, clock,
                       issued, slot>>

ContentIds == {0, -1} \cup (1..MaxContentId)

RemoveContent(tok, contentId) ==
    LET o == DeleteContent(contents, tok, contentId, clock)
    IN  /\ contents' = o.contents
        /\ ev' = Event("deleteContent", o.userId, contentId, o.res)
        /\ UNCHANGED <<users, shares, nextContentId, nextHash, clock, issued,
                       slot>>

ShareStart(s, tok, share) ==
    LET o == PostShare(shares, tok, share, clock)
    IN  /\ slot[s].pc = "idle"
        /\ shares' = o.shares
        /\ slot' = IF o.next = "respond" THEN slot
                   ELSE [slot EXCEPT ![s] = [IdleSlot EXCEPT !.pc = o.next,
                                                !.userId = o.userId]]
        /\ ev' = IF o.next = "respond"
                 THEN Event("share", o.userId, IF share THEN 1 ELSE 0, o.res)
                 ELSE NoEvent
        /\ UNCHANGED <<users, contents, nextContentId, nextHash, clock, issued>>

ShareCreate(s) ==
    LET o == ShareEnableCreate(shares, nextHash, slot[s].userId)
    IN  /\ slot[s].pc = "share_create"
        /\ nextHash <= MaxHash
        /\ slot' = [slot EXCEPT ![s] = IdleSlot]
        /\ shares' = o.shares
        /\ nextHash' = nextHash + 1
        /\ ev' = Event("share", slot[s].userId, 1, o.res)
        /\ UNCHANGED <<users, contents, nextContentId, clock, issued>>

BrainFindLink(s, hash) ==
    LET o == GetBrainFindLink(shares, hash)
    IN  /\ slot[s].pc = "idle"
        /\ slot' = IF o.next = "respond" THEN slot
                   ELSE [slot EXCEPT ![s] = [IdleSlot EXCEPT !.pc = o.next,
                                                !.userId = o.userId]]
        /\ ev' = IF o.next = "respond" THEN Event("brain", 0, hash, o.res)
                 ELSE NoEvent
        /\ UNCHANGED <<users, contents, shares, nextContentId, nextHash, clock,
                       issued>>

BrainRespond(s) ==
    LET res == GetBrainRespond(users, contents, slot[s].userId)
    IN  /\ slot[s].pc = "brain_content"
        /\ slot' = [slot EXCEPT ![s] = IdleSlot]
        /\ ev' = Event("brain", slot[s].userId, 0, res)
        /\ UNCHANGED <<users, contents, shares, nextContentId, nextHash, clock,
                       issued>>

Tick ==
    /\ clock + ClockStep <= MaxClock
    /\ clock' = clock + ClockStep
    /\ ev' = NoEvent
    /\ UNCHANGED <<users, contents, shares, nextContentId, nextHash, issued,
                   slot>>

---------------------------------------------------------------------------
(* Accounts, tokens and the guard, from an empty database *)

Next ==
    \/ \E s \in Slots, u \in Usernames, pw \in Passwords :
           SigninFind(s, [username |-> u, password |-> pw])
    \/ \E s \in Slots : SigninCreate(s)
    \/ \E u \in Usernames, pw \in Passwords :
           Login([username |-> u, password |-> pw])
    \/ \E tok \in Headers : ListContent(tok)
    \/ Tick

Spec == Init /\ [][Next]_vars

(* Content, from a database in which alice and bob have signed up and     *)
(* logged in at time 0, one ClockStep ago                                  *)

Alice == Text("alice", 5, 0)

Bob == Text("bob", 3, 0)

Secret == Text("secret1", 7, 0)

InitRegistered ==
    /\ users = { [id |-> 1, username |-> Alice, password |-> bcryptHash(Secret)],
                 [id |-> 2, username |-> Bob, password |-> bcryptHash(Secret)] }
    /\ contents = {}
    /\ shares = <<>>
    /\ nextContentId = 1
    /\ nextHash = 1
    /\ clock = ClockStep
    /\ issued = { [tok |-> jwtSign(1, 0), username |-> Alice, at |-> 0],
                  [tok |-> jwtSign(2, 0), username |-> Bob, at |-> 0] }
    /\ slot = [s \in Slots |-> IdleSlot]
    /\ ev = NoEvent

NextContent ==
    \/ \E tok \in Headers, t \in Titles, l \in Links :
           AddContent(tok, [title |-> t, link |-> l])
    \/ \E tok \in Headers : ListContent(tok)
    \/ \E tok \in Headers, c \in ContentIds : RemoveContent(tok, c)
    \/ Tick

SpecContent == InitRegistered /\ [][NextContent]_vars

(* Sharing and the public page, from a database in which alice and bob     *)
(* have each added one bookmark; bookmarks are then only removed           *)

Bookmark(id, core, userId) ==
    ContentDoc(id, [title |-> Text(core, 2, 0), link |-> Text("https://x", 9, 0)],
               userId)

InitShared ==
    /\ users = { [id |-> 1, username |-> Alice, password |-> bcryptHash(Secret)],
                 [id |-> 2, username |-> Bob, password |-> bcryptHash(Secret)] }
    /\ contents = { Bookmark(1, "t1", 1), Bookmark(2, "t2", 2) }
    /\ shares = <<>>
    /\ nextContentId = 3
    /\ nextHash = 1
    /\ clock = ClockStep
    /\ issued = { [tok |-> jwtSign(1, 0), username |-> Alice, at |-> 0],
                  [tok |-> jwtSign(2, 0), username |-> Bob, at |-> 0] }
    /\ slot = [s \in Slots |-> IdleSlot]
    /\ ev = Event("postContent", 2, 0, Res(201, "", {}))

NextShare ==
    \/ \E tok \in Headers, c \in ContentIds : RemoveContent(tok, c)
    \/ \E s \in Slots, tok \in Headers, share \in BOOLEAN :
           ShareStart(s, tok, share)
    \/ \E s \in Slots : ShareCreate(s)
    \/ \E s \in Slots, h \in 1..MaxHash : BrainFindLink(s, h)
    \/ \E s \in Slots : BrainRespond(s)
    \/ Tick

SpecShare == InitShared /\ [][NextShare]_vars

---------------------------------------------------------------------------
(* The starting states of SpecContent and SpecShare are states the server  *)
(* reaches: TLC finds NotRegistered violated under Spec and NotShared      *)
(* violated under SpecContent.                                             *)

NotRegistered == ~InitRegistered

NotShared == ~InitShared

---------------------------------------------------------------------------
(* Vocabulary of the properties *)

(* The identity of the account a login was made for *)
IdOf(username) == (CHOOSE u \in users : u.username = username).id

(* Grants whose token is still inside its lifetime *)
LiveGrants == { g \in issued : clock < g.at + TokenTTL }

(* Header values that are absent, malformed, forged, without id, or expired *)
BadHeaders ==
    {NoHeader, Malformed, NoIdToken} \cup ForgedTokens
        \cup { g.tok : g \in issued \ LiveGrants }

Payloads == [username : Usernames, password : Passwords]

ContentPayloads == [title : Titles, link : Links]

OwnedBy(userId) == { c \in contents : c.userId = userId }

Owners(hash) == { shares[i].userId : i \in ShareIdxByHash(shares, hash) }

(* GET /brain/:hash run without another request in between *)
GetBrain(hash) ==
    IF GetBrainFindLink(shares, hash).next = "respond"
    THEN GetBrainFindLink(shares, hash).res
    ELSE GetBrainRespond(users, contents, GetBrainFindLink(shares, hash).userId)

ExactlyContentOf(res, userId) ==
    /\ res.status = 200
    /\ \A c \in res.data.content : c \in contents /\ c.userId = userId
    /\ \A c \in contents : c.userId = userId => c \in res.data.content
    /\ \E u \in users : u.id = userId /\ res.data.username = u.username

---------------------------------------------------------------------------
(* C1: GET /brain/H needs no token; it answers 404 when no share mapping   *)
(* has hash H, and when a mapping (U, H) exists it answers with exactly    *)
(* the content records U owns at the moment they are read, no record of    *)
(* another user, and U's username.                                         *)

C1_PublicPageIsOwnersContent ==
    /\ \A h \in 1..(MaxHash + 1) :
          /\ Owners(h) = {} => GetBrain(h).status = 404
          /\ \A u \in Owners(h) :
                /\ GetBrainFindLink(shares, h).userId = u
                /\ ExactlyContentOf(GetBrain(h), u)
    /\ \A s \in Slots : slot[s].pc = "brain_content" =>
          ExactlyContentOf(GetBrainRespond(users, contents, slot[s].userId),
                           slot[s].userId)

C1_Witness ==
    /\ ev.op = "brain" /\ ev.status = 200
    /\ OwnedBy(ev.user) # {}
    /\ contents \ OwnedBy(ev.user) # {}

---------------------------------------------------------------------------
(* C2: in every reachable state, also after concurrent enable requests of  *)
(* one owner interleave, the share store holds at most one mapping per     *)
(* owner.                                                                  *)

C2_AtMostOneMappingPerOwner ==
    \A u \in UserIds : Cardinality(ShareIdxByUser(shares, u)) <= 1

---------------------------------------------------------------------------
(* C3: DELETE /content for X by a user who does not own X answers 404 and  *)
(* leaves X in the store; by X's owner it answers 200 and removes X (and   *)
(* nothing else), and GET /content by the owner no longer lists X; object  *)
(* ids are never handed out again, so X stays excluded.                    *)

C3_DeleteOnlyByOwner ==
    /\ \A c \in contents : c.id < nextContentId
    /\ \A g \in LiveGrants, x \in contents :
          LET o == DeleteContent(contents, g.tok, x.id, clock)
          IN  IF x.userId # IdOf(g.username)
              THEN o.res.status = 404 /\ o.contents = contents
              ELSE /\ o.res.status = 200
                   /\ o.contents = contents \ {x}
                   /\ x \notin GetContent(o.contents, g.tok, clock).res.data
                   /\ GetContent(o.contents, g.tok, clock).res.data
                          = OwnedBy(x.userId) \ {x}

C3_Witness ==
    /\ ev.op = "deleteContent" /\ ev.status = 404 /\ ev.user # 0
    /\ \E c \in contents : c.id = ev.arg /\ c.userId # ev.user
    /\ nextContentId > Cardinality(contents) + 1

---------------------------------------------------------------------------
(* C4: the guard resolves a token returned by a login of user A to A's     *)
(* identity, never to another user's, at every time before 24 hours have   *)
(* passed since it was issued, and rejects it at every time from then on.  *)

C4_TokenBindsIdentityUntilExpiry ==
    /\ \A u, v \in users : u.id = v.id => u = v
    /\ \A g \in issued : \A now \in g.at..(g.at + TokenTTL + ClockStep) :
          LET m == userMiddleware(g.tok, now)
          IN  IF now >= g.at + TokenTTL
              THEN ~m.ok /\ m.status = 401
              ELSE m.ok /\ m.userId = IdOf(g.username)

C4_Witness ==
    /\ ev.op = "getContent" /\ ev.status = 200 /\ ev.user = 2
    /\ Cardinality(users) = 2
    /\ issued \ LiveGrants # {}

---------------------------------------------------------------------------
(* C5: POST /content, GET /content, DELETE /content and POST /brain/share  *)
(* with an absent header or a malformed, forged, expired or id-less token  *)
(* answer 401 without running the handler: no data is returned, nothing    *)
(* is suspended, and the stores stay as they are.                          *)

C5_BadTokenRejected ==
    \A tok \in BadHeaders :
        /\ \A p \in ContentPayloads :
              LET o == PostContent(contents, nextContentId, tok, p, clock)
              IN  o.res.status = 401 /\ o.contents = contents /\ o.res.data = {}
        /\ LET o == GetContent(contents, tok, clock)
           IN  o.res.status = 401 /\ o.res.data = {}
        /\ \A c \in ContentIds :
              LET o == DeleteContent(contents, tok, c, clock)
              IN  o.res.status = 401 /\ o.contents = contents
        /\ \A share \in BOOLEAN :
              LET o == PostShare(shares, tok, share, clock)
              IN  o.res.status = 401 /\ o.shares = shares /\ o.next = "respond"

C5_Witness ==
    /\ ev.op = "share" /\ ev.status = 401
    /\ shares # <<>> /\ contents # {}
    /\ issued \ LiveGrants # {}

---------------------------------------------------------------------------
(* POST /brain/share {share:true} run without another request in between *)

EnableSeq(sh, nh, userId) ==
    IF ShareEnableFind(sh, userId).next = "respond"
    THEN [shares |-> sh, nextHash |-> nh, res |-> ShareEnableFind(sh, userId).res]
    ELSE [shares |-> ShareEnableCreate(sh, nh, userId).shares,
          nextHash |-> nh + 1,
          res |-> ShareEnableCreate(sh, nh, userId).res]

LiveHashes(userId) == { shares[i].hash : i \in ShareIdxByUser(shares, userId) }

(* C6: for one owner, two consecutive enable requests with no disable in   *)
(* between return the identical hash, and a disable followed by an enable  *)
(* returns a hash that was not live for the owner before the disable.      *)

C6_EnableIdempotentReenableFresh ==
    \A u \in UserIds :
        LET e1 == EnableSeq(shares, nextHash, u)
            e2 == EnableSeq(e1.shares, e1.nextHash, u)
            d  == ShareDisable(shares, u)
            e3 == EnableSeq(d.shares, nextHash, u)
        IN  /\ e1.res.status = 200 /\ e2.res.status = 200
            /\ e1.res.data = e2.res.data
            /\ d.res.status = 200 /\ e3.res.status = 200
            /\ e3.res.data \notin LiveHashes(u)

---------------------------------------------------------------------------
(* C7: once a disable request of owner U has been answered, the store      *)
(* holds no mapping for U, so no hash resolves to U on GET /brain/:hash;   *)
(* the disable answers 200 also when U had no mapping.                     *)

C7_DisableRemovesEveryMapping ==
    /\ \A u \in UserIds : ShareDisable(shares, u).res.status = 200
    /\ (ev.op = "share" /\ ev.arg = 0 /\ ev.status = 200) =>
          /\ ShareIdxByUser(shares, ev.user) = {}
          /\ \A h \in 1..(MaxHash + 1) :
                GetBrainFindLink(shares, h).userId # ev.user

---------------------------------------------------------------------------
(* C8: a POST /signin whose payload passed validation and whose username   *)
(* is not in the user store answers 201 and creates one user; a POST       *)
(* /signin with a valid payload and a username that is in the store        *)
(* answers 409 and creates no user.                                        *)

C8_SignupOnceThenConflict ==
    /\ \A s \in Slots :
          (/\ slot[s].pc = "signin_create"
           /\ UserFindOne(users, slot[s].payload.username) = {}) =>
             LET o == PostSigninCreate(users, slot[s].payload)
             IN  /\ o.res.status = 201
                 /\ Cardinality(o.users) = Cardinality(users) + 1
    /\ \A p \in Payloads :
          (userSchemaOk(p) /\ UserFindOne(users, Trim(p.username)) # {}) =>
             /\ PostSigninFind(users, p).next = "respond"
             /\ PostSigninFind(users, p).res.status = 409

---------------------------------------------------------------------------
(* C9: when signin requests for one username interleave between their      *)
(* findOne and their create, at most one of them answers 201, the others   *)
(* answer 500 and create nothing, and the user store never holds two       *)
(* records with the same username.                                         *)

C9_ConcurrentSignupCreatesOne ==
    /\ \A u, v \in users : u.username = v.username => u = v
    /\ \A s \in Slots :
          (/\ slot[s].pc = "signin_create"
           /\ UserFindOne(users, slot[s].payload.username) # {}) =>
             LET o == PostSigninCreate(users, slot[s].payload)
             IN  o.res.status = 500 /\ o.users = users
    /\ \A s, t \in Slots :
          (/\ s # t
           /\ slot[s].pc = "signin_create" /\ slot[t].pc = "signin_create"
           /\ slot[s].payload.username = slot[t].payload.username) =>
             LET o1 == PostSigninCreate(users, slot[s].payload)
                 o2 == PostSigninCreate(o1.users, slot[t].payload)
             IN  /\ ~(o1.res.status = 201 /\ o2.res.status = 201)
                 /\ Cardinality(o2.users) <= Cardinality(users) + 1

C9_Witness ==
    /\ ev.op = "signin" /\ ev.arg = 1 /\ ev.status = 201
    /\ \E s \in Slots :
          /\ slot[s].pc = "signin_create"
          /\ UserFindOne(users, slot[s].payload.username) # {}

---------------------------------------------------------------------------
(* C10: POST /login with an unknown username and POST /login with a known  *)
(* username and a wrong password (both payloads passing validation) get    *)
(* the same answer, status 401 with the same body, and no token.           *)

UnknownUser(p) == userSchemaOk(p) /\ UserFindOne(users, Trim(p.username)) = {}

WrongPassword(p) ==
    /\ userSchemaOk(p)
    /\ \E u \in users :
          u.username = Trim(p.username) /\ u.password # bcryptHash(p.password)

Denied == Res(401, "Invalid credentials", NoHeader)

C10_LoginFailuresAlike ==
    \A p \in Payloads : (UnknownUser(p) \/ WrongPassword(p)) =>
        PostLogin(users, p, clock) = Denied

C10_Witness ==
    /\ ev.op = "login" /\ ev.status = 401
    /\ \E p, q \in Payloads : UnknownUser(p) /\ WrongPassword(q)

---------------------------------------------------------------------------
(* C11: a request whose body fails shape validation (POST /signin and      *)
(* POST /login with a username or password outside the schema's lengths,   *)
(* POST /content with an empty title or an over-long link) is answered     *)
(* with 400 "Validation failed", never 500, and no store changes.          *)

C11_ValidationFailuresAre400 ==
    /\ \A p \in Payloads : ~userSchemaOk(p) =>
          /\ PostSigninFind(users, p).next = "respond"
          /\ PostSigninFind(users, p).res.status = 400
          /\ PostLogin(users, p, clock).status = 400
    /\ \A g \in LiveGrants, p \in ContentPayloads : ~contentSchemaOk(p) =>
          LET o == PostContent(contents, nextContentId, g.tok, p, clock)
          IN  /\ o.res.status = 400
              /\ o.res.body = "Validation failed"
              /\ o.contents = contents

---------------------------------------------------------------------------
(* C12: no two content records share a title, whoever owns them.  An       *)
(* authenticated POST /content with a payload that passes validation       *)
(* answers 500 and leaves the content store unchanged when the title is    *)
(* that of an existing record of any user; otherwise it answers 201 and    *)
(* inserts exactly one record, owned by the caller, with empty tags.       *)

TitleTaken(p) == \E c \in contents : c.title = Trim(p.title)

C12_TitlesUniqueAcrossOwners ==
    /\ \A c, d \in contents : c.title = d.title => c = d
    /\ \A g \in LiveGrants, p \in ContentPayloads : contentSchemaOk(p) =>
          LET o == PostContent(contents, nextContentId, g.tok, p, clock)
          IN  IF TitleTaken(p)
              THEN o.res.status = 500 /\ o.contents = contents
              ELSE /\ o.res.status = 201
                   /\ \E c \in o.contents \ contents :
                         /\ o.contents = contents \cup {c}
                         /\ c.userId = IdOf(g.username)
                         /\ c.title = Trim(p.title)
                         /\ c.tags = {}

====
